---- MODULE Spec2Model ----
(***************************************************************************)
(* ShopBot, the console e-commerce assistant: the catalog loader and the   *)
(* two product queries of assistant_functions.py, and the conversation     *)
(* loop of main.py.                                                        *)
(*                                                                         *)
(* Text is a sequence of one-character strings, so that str.lower() and    *)
(* whole-string comparison are computed, not assumed.  A Python value is   *)
(* a record [type, val] (str, int, NoneType), [type, items] (dict, list).  *)
(* A product is a record whose DOMAIN is the set of keys the JSON object   *)
(* has; price is held in cents.                                            *)
(***************************************************************************)
EXTENDS Integers, Sequences, FiniteSets, TLC

VARIABLES
    credential,  \* whether OPENAI_API_KEY is set in the environment
    resource,    \* product_catalog.json as found on disk
    catalog,     \* main's local `catalog`
    messages,    \* main's local `messages`, the transcript
    pc,          \* where main is
    user_input,  \* main's local `user_input`
    message,     \* main's local `message`, the first completion's answer
    output,      \* what has been printed
    error,       \* the uncaught exception that ended main, or "none"
    trace,       \* history: the calls main has made, in order
    q_op,        \* query harness: the query called last
    q_name,      \* query harness: its product_name
    q_result     \* query harness: what it returned

vars == <<credential, resource, catalog, messages, pc, user_input, message,
          output, error, trace, q_op, q_name, q_result>>

sessionVars == <<credential, resource, messages, pc, user_input, message,
                 output, error, trace>>

queryVars == <<q_op, q_name, q_result>>

-----------------------------------------------------------------------------
(* Bounds *)

MaxTurns == 2
MaxCatalogLen == 2
MaxQueryCatalogLen == 3
MaxStock == 1

-----------------------------------------------------------------------------
(* Text *)

UpperChars == <<"A", "B", "E", "I", "L", "Q", "R", "S", "T", "U", "X">>
LowerChars == <<"a", "b", "e", "i", "l", "q", "r", "s", "t", "u", "x">>

LowerChar(c) ==
    IF \E i \in DOMAIN UpperChars : UpperChars[i] = c
    THEN LowerChars[CHOOSE i \in DOMAIN UpperChars : UpperChars[i] = c]
    ELSE c

Lower(s) == [i \in 1..Len(s) |-> LowerChar(s[i])]

Str(s) == [type |-> "str", val |-> s]

EmptyStr == Str(<<>>)

-----------------------------------------------------------------------------
(* assistant_functions.py *)

ProductKeys == {"id", "name", "description", "price", "stock"}

None == [kind |-> "None"]

Raise(exc) == [kind |-> "raise", exc |-> exc]

load_product_catalog(res) ==
    CASE res.state = "missing" -> Raise("FileNotFoundError")
      [] res.state = "invalid_json" -> Raise("JSONDecodeError")
      [] OTHER -> [kind |-> "list", items |-> res.content]

names_equal_case_sensitive(product, product_name) ==
    product.name = product_name.val

names_equal(product, product_name) ==
    Lower(product.name) = Lower(product_name.val)

RECURSIVE scan_catalog(_, _, _)
scan_catalog(product_name, cat, i) ==
    IF i > Len(cat) THEN None
    ELSE LET product == cat[i] IN
         IF "name" \notin DOMAIN product THEN Raise("KeyError")
         ELSE IF product_name.type # "str" THEN Raise("AttributeError")
         ELSE IF names_equal(product, product_name)
              THEN IF ProductKeys \subseteq DOMAIN product
                   THEN [kind |-> "dict",
                         product |-> [id |-> product.id,
                                      name |-> product.name,
                                      description |-> product.description,
                                      price |-> product.price,
                                      stock |-> product.stock]]
                   ELSE Raise("KeyError")
              ELSE scan_catalog(product_name, cat, i + 1)

get_product_info_last_match(product_name, cat) ==
    LET hits == {i \in DOMAIN cat : names_equal(cat[i], product_name)} IN
    IF hits = {} THEN None
    ELSE [kind |-> "dict",
          product |-> cat[CHOOSE i \in hits : \A j \in hits : j <= i]]

get_product_info(product_name, cat) == scan_catalog(product_name, cat, 1)

stock_positive_or_zero(product) == product.stock >= 0

stock_positive(product) == product.stock > 0

check_stock(product_name, cat) ==
    LET product == get_product_info(product_name, cat) IN
    CASE product.kind = "raise" -> product
      [] product.kind = "dict" ->
            [kind |-> "bool", flag |-> stock_positive(product.product)]
      [] OTHER -> [kind |-> "bool", flag |-> FALSE]

-----------------------------------------------------------------------------
(* Data the queries are exercised on: well-formed catalogs, identifiers     *)
(* unique (the position), names possibly equal up to letter case.           *)

Description == <<"d">>

NamePool == {<<"a">>, <<"A">>, <<"a", "b">>}

QueryNames == NamePool \cup {<<"b">>, <<"A", "B">>}

MakeProducts(f) ==
    [i \in DOMAIN f |-> [id |-> i, name |-> f[i][1], description |-> Description,
                         price |-> 999, stock |-> f[i][2]]]

QueryCatalogs ==
    UNION {{MakeProducts(f) : f \in [1..n -> NamePool \X (0..MaxStock)]} :
           n \in 0..MaxQueryCatalogLen}

-----------------------------------------------------------------------------
(* main.py: the values the conversation loop works on *)

Text(s) == [fmt |-> "text", val |-> s]

SystemPrompt == Text(<<"ShopBot">>)

Welcome == Text(<<"Bienvenido">>)

Farewell == Text(<<"Gracias">>)

ExitPhrases == {<<"s", "a", "l", "i", "r">>, <<"e", "x", "i", "t">>,
                <<"q", "u", "i", "t">>}

is_exit_case_sensitive(line) == line \in ExitPhrases

is_exit(line) == Lower(line) \in ExitPhrases

SupportedFunctions == {"get_product_info", "check_stock"}

EmptyDict == [type |-> "dict", items |-> {}]

json_loads(arguments_json) ==
    IF arguments_json.valid
    THEN [kind |-> "value", value |-> arguments_json.value]
    ELSE Raise("JSONDecodeError")

parse_arguments(arguments_json) ==
    LET r == json_loads(arguments_json) IN
    IF r.kind = "raise" THEN EmptyDict ELSE r.value

dict_get_without_default(d, key, default) ==
    IF \E kv \in d.items : kv[1] = key
    THEN (CHOOSE kv \in d.items : kv[1] = key)[2]
    ELSE [type |-> "NoneType", val |-> <<>>]

dict_get(d, key, default) ==
    IF \E kv \in d.items : kv[1] = key
    THEN (CHOOSE kv \in d.items : kv[1] = key)[2]
    ELSE default

format_price(price) == [units |-> price \div 100, hundredths |-> price % 100]

ProductSummary(product) ==
    [fmt |-> "product", name |-> product.name,
     description |-> product.description,
     price |-> format_price(product.price), stock |-> product.stock]

NoProductFound(product_name) == [fmt |-> "no_product", product_name |-> product_name]

Available(product_name) == [fmt |-> "available", product_name |-> product_name]

OutOfStock(product_name) == [fmt |-> "out_of_stock", product_name |-> product_name]

UnknownFunction == [fmt |-> "unknown_function"]

Response(text, queried) ==
    [kind |-> "ok", function_response |-> text, queried |-> queried]

product_message(product, product_name) ==
    IF product.kind = "dict"
    THEN ProductSummary(product.product)
    ELSE NoProductFound(product_name)

stock_message_inverted(in_stock, product_name) ==
    IF in_stock.flag THEN OutOfStock(product_name) ELSE Available(product_name)

stock_message(in_stock, product_name) ==
    IF in_stock.flag THEN Available(product_name) ELSE OutOfStock(product_name)

dispatch_get_product_info(arguments, cat) ==
    IF arguments.type # "dict" THEN Raise("AttributeError")
    ELSE LET product_name == dict_get(arguments, "product_name", EmptyStr)
             product == get_product_info(product_name, cat)
         IN  IF product.kind = "raise" THEN product
             ELSE Response(product_message(product, product_name),
                           <<"get_product_info">>)

dispatch_check_stock(arguments, cat) ==
    IF arguments.type # "dict" THEN Raise("AttributeError")
    ELSE LET product_name == dict_get(arguments, "product_name", EmptyStr)
             in_stock == check_stock(product_name, cat)
         IN  IF in_stock.kind = "raise" THEN in_stock
             ELSE Response(stock_message(in_stock, product_name), <<"check_stock">>)

dispatch_reading_name_first(function_name, arguments_json, cat) ==
    LET arguments == parse_arguments(arguments_json) IN
    IF arguments.type # "dict" THEN Raise("AttributeError")
    ELSE IF function_name = "get_product_info"
    THEN dispatch_get_product_info(arguments, cat)
    ELSE IF function_name = "check_stock"
    THEN dispatch_check_stock(arguments, cat)
    ELSE Response(UnknownFunction, <<>>)

dispatch(function_name, arguments_json, cat) ==
    LET arguments == parse_arguments(arguments_json) IN
    IF function_name = "get_product_info"
    THEN dispatch_get_product_info(arguments, cat)
    ELSE IF function_name = "check_stock"
    THEN dispatch_check_stock(arguments, cat)
    ELSE Response(UnknownFunction, <<>>)

-----------------------------------------------------------------------------
(* The environment of a session: the catalog file, what the user types and  *)
(* what the model answers.                                                  *)

WaterBottle ==
    [id |-> 1, name |-> <<"a", "b">>, description |-> Description,
     price |-> 999, stock |-> 0]

Mug ==
    [id |-> 2, name |-> <<"b">>, description |-> Description,
     price |-> 1250, stock |-> 2]

NoPrice ==
    [id |-> 3, name |-> <<"b">>, description |-> Description, stock |-> 1]

FileRecords == {WaterBottle, Mug, NoPrice}

FileContents ==
    {s \in UNION {[1..n -> FileRecords] : n \in 0..MaxCatalogLen} :
        \A i, j \in DOMAIN s : i # j => s[i].id # s[j].id}

Resources ==
    {[state |-> "missing"], [state |-> "invalid_json"]}
        \cup {[state |-> "json", content |-> c] : c \in FileContents}

UserInputs ==
    {<<"e", "x", "i", "t">>, <<"Q", "U", "I", "T">>, <<"S", "a", "l", "i", "r">>,
     <<"e", "x", "i", "t", "s">>}

Replies == {<<"o", "k">>}

FunctionNames == SupportedFunctions \cup {"refund"}

Int5 == [type |-> "int", val |-> <<"5">>]

ArgumentPayloads ==
    {[valid |-> FALSE]}
        \cup {[valid |-> TRUE, value |-> v] :
                v \in {[type |-> "list", items |-> {}],
                       EmptyDict,
                       [type |-> "dict", items |-> {<<"product_name", Str(<<"A", "B">>)>>}],
                       [type |-> "dict", items |-> {<<"product_name", Str(<<"b">>)>>}],
                       [type |-> "dict", items |-> {<<"product_name", Int5>>}],
                       [type |-> "dict", items |-> {<<"name", Str(<<"b">>)>>}]}}

NoMessage == [kind |-> "none"]

Turns == Len(SelectSeq(trace, LAMBDA e : e = "append_user"))

-----------------------------------------------------------------------------
(* main.py: main() *)

Init ==
    /\ credential \in BOOLEAN
    /\ resource \in Resources
    /\ catalog = <<>>
    /\ messages = <<>>
    /\ pc = "Startup"
    /\ user_input = <<>>
    /\ message = NoMessage
    /\ output = <<>>
    /\ error = "none"
    /\ trace = <<>>
    /\ q_op = "none"
    /\ q_name = EmptyStr
    /\ q_result = None

StartupNoCredential ==
    /\ pc = "Startup"
    /\ ~credential
    /\ pc' = "Aborted"
    /\ error' = "OpenAIError"
    /\ trace' = Append(trace, "raise")
    /\ UNCHANGED <<credential, resource, catalog, messages, user_input, message,
                   output, queryVars>>

StartupLoadFails ==
    /\ pc = "Startup"
    /\ credential
    /\ load_product_catalog(resource).kind = "raise"
    /\ pc' = "Aborted"
    /\ error' = load_product_catalog(resource).exc
    /\ trace' = trace \o <<"load", "raise">>
    /\ UNCHANGED <<credential, resource, catalog, messages, user_input, message,
                   output, queryVars>>

Startup ==
    /\ pc = "Startup"
    /\ credential
    /\ load_product_catalog(resource).kind = "list"
    /\ catalog' = load_product_catalog(resource).items
    /\ output' = Append(output, Welcome)
    /\ messages' = <<[role |-> "system", content |-> SystemPrompt]>>
    /\ pc' = "AwaitingUserInput"
    /\ trace' = trace \o <<"load", "print">>
    /\ UNCHANGED <<credential, resource, user_input, message, error, queryVars>>

ReadExit_appending_first ==
    /\ pc = "AwaitingUserInput"
    /\ \E line \in UserInputs :
        /\ is_exit(line)
        /\ user_input' = line
        /\ messages' = Append(messages, [role |-> "user", content |-> Text(line)])
    /\ output' = Append(output, Farewell)
    /\ pc' = "SessionEnded"
    /\ trace' = trace \o <<"read", "append_user", "print">>
    /\ UNCHANGED <<credential, resource, catalog, message, error, queryVars>>

ReadExit ==
    /\ pc = "AwaitingUserInput"
    /\ \E line \in UserInputs :
        /\ is_exit(line)
        /\ user_input' = line
    /\ output' = Append(output, Farewell)
    /\ pc' = "SessionEnded"
    /\ trace' = trace \o <<"read", "print">>
    /\ UNCHANGED <<credential, resource, catalog, messages, message, error, queryVars>>

ReadInput ==
    /\ pc = "AwaitingUserInput"
    /\ Turns < MaxTurns
    /\ \E line \in UserInputs :
        /\ ~is_exit(line)
        /\ user_input' = line
        /\ messages' = Append(messages, [role |-> "user", content |-> Text(line)])
    /\ pc' = "AwaitingModelDecision"
    /\ trace' = trace \o <<"read", "append_user">>
    /\ UNCHANGED <<credential, resource, catalog, message, output, error, queryVars>>

DecisionFails_recovered ==
    /\ pc = "AwaitingModelDecision"
    /\ output' = Append(output, Text(<<"e", "r", "r", "o", "r">>))
    /\ pc' = "AwaitingUserInput"
    /\ trace' = trace \o <<"complete_with_functions", "raise", "print">>
    /\ UNCHANGED <<credential, resource, catalog, messages, user_input, message,
                   error, queryVars>>

DecisionFails ==
    /\ pc = "AwaitingModelDecision"
    /\ pc' = "Aborted"
    /\ error' = "APIError"
    /\ trace' = trace \o <<"complete_with_functions", "raise">>
    /\ UNCHANGED <<credential, resource, catalog, messages, user_input, message,
                   output, queryVars>>

DecisionReply ==
    /\ pc = "AwaitingModelDecision"
    /\ \E content \in Replies :
        /\ message' = [kind |-> "content", content |-> Text(content)]
        /\ output' = Append(output, Text(content))
        /\ messages' = Append(messages, [role |-> "assistant", content |-> Text(content)])
    /\ pc' = "AwaitingUserInput"
    /\ trace' = trace \o <<"complete_with_functions", "print", "append_assistant">>
    /\ UNCHANGED <<credential, resource, catalog, user_input, error, queryVars>>

DecisionFunctionCall ==
    /\ pc = "AwaitingModelDecision"
    /\ \E name \in FunctionNames, arguments \in ArgumentPayloads :
        message' = [kind |-> "function_call", name |-> name, arguments |-> arguments]
    /\ pc' = "DispatchingFunction"
    /\ trace' = Append(trace, "complete_with_functions")
    /\ UNCHANGED <<credential, resource, catalog, messages, user_input, output,
                   error, queryVars>>

DispatchRaises ==
    /\ pc = "DispatchingFunction"
    /\ LET r == dispatch(message.name, message.arguments, catalog) IN
        /\ r.kind = "raise"
        /\ error' = r.exc
    /\ pc' = "Aborted"
    /\ trace' = trace \o <<"dispatch", "raise">>
    /\ UNCHANGED <<credential, resource, catalog, messages, user_input, message,
                   output, queryVars>>

Dispatch_recording_request ==
    /\ pc = "DispatchingFunction"
    /\ LET r == dispatch(message.name, message.arguments, catalog) IN
        /\ r.kind = "ok"
        /\ messages' = messages \o
                <<[role |-> "assistant", content |-> Text(<<>>)],
                  [role |-> "function", name |-> message.name,
                   content |-> r.function_response]>>
        /\ trace' = trace \o <<"dispatch">> \o r.queried \o <<"append_function">>
    /\ pc' = "AwaitingFollowupReply"
    /\ UNCHANGED <<credential, resource, catalog, user_input, message, output,
                   error, queryVars>>

Dispatch_then_decide ==
    /\ pc = "DispatchingFunction"
    /\ LET r == dispatch(message.name, message.arguments, catalog) IN
        /\ r.kind = "ok"
        /\ messages' = Append(messages, [role |-> "function", name |-> message.name,
                                         content |-> r.function_response])
        /\ trace' = trace \o <<"dispatch">> \o r.queried \o <<"append_function">>
    /\ pc' = "AwaitingModelDecision"
    /\ UNCHANGED <<credential, resource, catalog, user_input, message, output,
                   error, queryVars>>

Dispatch_popping_catalog ==
    /\ pc = "DispatchingFunction"
    /\ LET r == dispatch(message.name, message.arguments, catalog) IN
        /\ r.kind = "ok"
        /\ messages' = Append(messages, [role |-> "function", name |-> message.name,
                                         content |-> r.function_response])
        /\ trace' = trace \o <<"dispatch">> \o r.queried \o <<"append_function">>
    /\ catalog' = IF catalog = <<>> THEN catalog ELSE Tail(catalog)
    /\ pc' = "AwaitingFollowupReply"
    /\ UNCHANGED <<credential, resource, user_input, message, output,
                   error, queryVars>>

Dispatch ==
    /\ pc = "DispatchingFunction"
    /\ LET r == dispatch(message.name, message.arguments, catalog) IN
        /\ r.kind = "ok"
        /\ messages' = Append(messages, [role |-> "function", name |-> message.name,
                                         content |-> r.function_response])
        /\ trace' = trace \o <<"dispatch">> \o r.queried \o <<"append_function">>
    /\ pc' = "AwaitingFollowupReply"
    /\ UNCHANGED <<credential, resource, catalog, user_input, message, output,
                   error, queryVars>>

FollowupFails ==
    /\ pc = "AwaitingFollowupReply"
    /\ pc' = "Aborted"
    /\ error' = "APIError"
    /\ trace' = trace \o <<"complete", "raise">>
    /\ UNCHANGED <<credential, resource, catalog, messages, user_input, message,
                   output, queryVars>>

FollowupReply_replacing_function_turn ==
    /\ pc = "AwaitingFollowupReply"
    /\ \E assistant_reply \in Replies :
        /\ output' = Append(output, Text(assistant_reply))
        /\ messages' = Append(SubSeq(messages, 1, Len(messages) - 1),
                              [role |-> "assistant", content |-> Text(assistant_reply)])
    /\ pc' = "AwaitingUserInput"
    /\ trace' = trace \o <<"complete", "print", "append_assistant">>
    /\ UNCHANGED <<credential, resource, catalog, user_input, message, error, queryVars>>

FollowupReply_with_functions ==
    /\ pc = "AwaitingFollowupReply"
    /\ \E assistant_reply \in Replies :
        /\ output' = Append(output, Text(assistant_reply))
        /\ messages' = Append(messages, [role |-> "assistant",
                                         content |-> Text(assistant_reply)])
    /\ pc' = "AwaitingModelDecision"
    /\ trace' = trace \o <<"complete", "print", "append_assistant">>
    /\ UNCHANGED <<credential, resource, catalog, user_input, message, error, queryVars>>

FollowupReply ==
    /\ pc = "AwaitingFollowupReply"
    /\ \E assistant_reply \in Replies :
        /\ output' = Append(output, Text(assistant_reply))
        /\ messages' = Append(messages, [role |-> "assistant",
                                         content |-> Text(assistant_reply)])
    /\ pc' = "AwaitingUserInput"
    /\ trace' = trace \o <<"complete", "print", "append_assistant">>
    /\ UNCHANGED <<credential, resource, catalog, user_input, message, error, queryVars>>

Next ==
    \/ StartupNoCredential
    \/ StartupLoadFails
    \/ Startup
    \/ ReadExit
    \/ ReadInput
    \/ DecisionFails
    \/ DecisionReply
    \/ DecisionFunctionCall
    \/ DispatchRaises
    \/ Dispatch
    \/ FollowupFails
    \/ FollowupReply

Spec == Init /\ [][Next]_vars

-----------------------------------------------------------------------------
(* The two queries called directly, on every catalog and name of the pools *)

QInit ==
    /\ credential = TRUE
    /\ resource = [state |-> "json", content |-> <<>>]
    /\ catalog \in QueryCatalogs
    /\ messages = <<>>
    /\ pc = "Query"
    /\ user_input = <<>>
    /\ message = NoMessage
    /\ output = <<>>
    /\ error = "none"
    /\ trace = <<>>
    /\ q_op = "none"
    /\ q_name = EmptyStr
    /\ q_result = None

CallGetProductInfo ==
    /\ \E n \in QueryNames :
        /\ q_name' = Str(n)
        /\ q_result' = get_product_info(Str(n), catalog)
    /\ q_op' = "get_product_info"
    /\ UNCHANGED <<catalog, sessionVars>>

CallCheckStock ==
    /\ \E n \in QueryNames :
        /\ q_name' = Str(n)
        /\ q_result' = check_stock(Str(n), catalog)
    /\ q_op' = "check_stock"
    /\ UNCHANGED <<catalog, sessionVars>>

QNext == CallGetProductInfo \/ CallCheckStock

QuerySpec == QInit /\ [][QNext]_vars

-----------------------------------------------------------------------------
(* Properties of the product queries (QuerySpec) *)

IdsUnique(cat) == \A i, j \in DOMAIN cat : i # j => cat[i].id # cat[j].id

MatchingPositions(n, cat) == {i \in DOMAIN cat : Lower(cat[i].name) = Lower(n)}

(* C1: get_product_info returns the first record, in catalog order, whose   *)
(* name equals the query name when both are lower-cased and compared as     *)
(* whole strings; it returns None when no record matches; and every query   *)
(* name that differs from this one only in letter case gives the same       *)
(* result.                                                                  *)
C1_FirstCaseInsensitiveMatch ==
    q_op = "get_product_info" =>
        LET hits == MatchingPositions(q_name.val, catalog) IN
        /\ hits = {} => q_result = None
        /\ hits # {} =>
              q_result = [kind |-> "dict",
                          product |-> catalog[CHOOSE i \in hits : \A j \in hits : i <= j]]
        /\ \A n \in QueryNames :
              Lower(n) = Lower(q_name.val) =>
                  get_product_info(Str(n), catalog) = q_result

C1_Witness ==
    /\ q_op = "get_product_info"
    /\ q_result.kind = "dict"
    /\ q_result.product.name # q_name.val
    /\ q_result.product.id = 1
    /\ Cardinality(MatchingPositions(q_name.val, catalog)) = 2
    /\ \E i \in DOMAIN catalog :
          /\ Len(catalog[i].name) > Len(q_name.val)
          /\ i \notin MatchingPositions(q_name.val, catalog)

(* C2: check_stock is true exactly when get_product_info finds a product    *)
(* and that product's stock is greater than zero; it is false when nothing  *)
(* is found and false when the product found has stock zero.                *)
C2_InStockIffFoundAndPositive ==
    q_op = "check_stock" =>
        LET found == get_product_info(q_name, catalog) IN
        /\ q_result.kind = "bool"
        /\ q_result.flag = (found.kind = "dict" /\ found.product.stock > 0)
        /\ found = None => q_result.flag = FALSE
        /\ (found.kind = "dict" /\ found.product.stock = 0) => q_result.flag = FALSE

C2_Witness ==
    /\ q_op = "check_stock"
    /\ get_product_info(q_name, catalog).kind = "dict"
    /\ get_product_info(q_name, catalog).product.stock = 0
    /\ q_result.flag = FALSE
    /\ \E i \in DOMAIN catalog : catalog[i].stock > 0

(* C3 as stated: with unique identifiers, for every product p of the        *)
(* catalog, check_stock(p.name) is (p.stock > 0).                           *)
C3_EveryProductByItsName ==
    (q_op = "check_stock" /\ IdsUnique(catalog)) =>
        \A i \in DOMAIN catalog :
            catalog[i].name = q_name.val =>
                q_result = [kind |-> "bool", flag |-> (catalog[i].stock > 0)]

(* C3 amended: with unique identifiers, for every product p of the catalog  *)
(* that no earlier record matches by name case-insensitively,               *)
(* check_stock(p.name) is false when p.stock = 0 and true when p.stock > 0. *)
C3_FirstOfItsNameByItsName ==
    (q_op = "check_stock" /\ IdsUnique(catalog)) =>
        \A i \in DOMAIN catalog :
            (/\ catalog[i].name = q_name.val
             /\ \A j \in 1..(i - 1) : Lower(catalog[j].name) # Lower(catalog[i].name)) =>
                /\ catalog[i].stock = 0 => q_result = [kind |-> "bool", flag |-> FALSE]
                /\ catalog[i].stock > 0 => q_result = [kind |-> "bool", flag |-> TRUE]

C3_Witness ==
    /\ q_op = "check_stock"
    /\ IdsUnique(catalog)
    /\ Len(catalog) = 2
    /\ catalog[1].name = q_name.val
    /\ catalog[1].stock > 0
    /\ Lower(catalog[2].name) = Lower(catalog[1].name)
    /\ catalog[2].stock = 0
    /\ q_result.flag = TRUE

-----------------------------------------------------------------------------
(* Properties of the session (Spec) *)

Last(seq) == seq[Len(seq)]

LastReadAt == CHOOSE k \in DOMAIN trace :
                  trace[k] = "read" /\ \A j \in DOMAIN trace : trace[j] = "read" => j <= k

HasRead == \E k \in DOMAIN trace : trace[k] = "read"

\* what main has done since it last read a line, the read included
TurnTrace == IF HasRead THEN SubSeq(trace, LastReadAt, Len(trace)) ELSE <<>>

ModelCalls(t) ==
    Len(SelectSeq(t, LAMBDA e : e \in {"complete_with_functions", "complete"}))

FullFunctionTurn ==
    <<"read", "append_user", "complete_with_functions", "dispatch", "check_stock",
      "append_function", "complete", "print", "append_assistant">>

\* the first completion asked for check_stock, by name, of a product whose stock is 0
AsksStockOfSoldOut ==
    /\ message.kind = "function_call"
    /\ message.name = "check_stock"
    /\ message.arguments.valid
    /\ message.arguments.value.type = "dict"
    /\ \E kv \in message.arguments.value.items :
          /\ kv[1] = "product_name"
          /\ kv[2].type = "str"
          /\ LET hits == MatchingPositions(kv[2].val, catalog) IN
                /\ hits # {}
                /\ catalog[CHOOSE i \in hits : \A j \in hits : i <= j].stock = 0

RequestedName ==
    (CHOOSE kv \in message.arguments.value.items : kv[1] = "product_name")[2]

(* C4: once the function requested by the first completion has been        *)
(* dispatched, the last turn of the transcript is a function turn tagged    *)
(* with the requested name and holding the dispatch result (the             *)
(* out-of-stock message when check_stock was asked of a product with stock  *)
(* 0), and nothing has been printed for this input; the second completion   *)
(* call comes right after that append and before any print of the turn.     *)
C4_FunctionResultThenSecondCall ==
    /\ pc = "AwaitingFollowupReply" =>
          /\ Last(messages).role = "function"
          /\ Last(messages).name = message.name
          /\ Last(messages).content =
                dispatch(message.name, message.arguments, catalog).function_response
          /\ AsksStockOfSoldOut => Last(messages).content = OutOfStock(RequestedName)
          /\ Last(TurnTrace) = "append_function"
          /\ \A k \in DOMAIN TurnTrace : TurnTrace[k] \notin {"print", "complete"}
    /\ \A k \in DOMAIN TurnTrace :
          TurnTrace[k] = "complete" =>
              /\ k > 1
              /\ TurnTrace[k - 1] = "append_function"
              /\ \A j \in 1..k : TurnTrace[j] # "print"
    /\ \A k \in DOMAIN TurnTrace :
          TurnTrace[k] = "append_function" =>
              \E j \in 1..k : TurnTrace[j] = "complete_with_functions"

C4_Witness ==
    /\ pc = "AwaitingUserInput"
    /\ TurnTrace = FullFunctionTurn
    /\ AsksStockOfSoldOut
    /\ Len(messages) >= 3
    /\ messages[Len(messages) - 1] =
          [role |-> "function", name |-> "check_stock",
           content |-> OutOfStock(Str(<<"A", "B">>))]
    /\ Last(messages).role = "assistant"

(* C5: between reading a line and the next read or the end of the session,  *)
(* main calls the model at most twice.                                      *)
C5_AtMostTwoModelCalls ==
    /\ ModelCalls(TurnTrace) <= 2
    /\ ~HasRead => ModelCalls(trace) = 0

C5_Witness ==
    /\ pc = "AwaitingUserInput"
    /\ ModelCalls(TurnTrace) = 2
    /\ Turns = MaxTurns

(* C6: a line that lower-cases to "exit", "quit" or "salir" ends the        *)
(* session: the farewell is printed, the model is not called for that line, *)
(* nothing is read or called afterwards, and when it is the first line the  *)
(* session has made no model call at all.                                   *)
C6_ExitPhraseEndsSession ==
    /\ (HasRead /\ Lower(user_input) \in
            {<<"e", "x", "i", "t">>, <<"q", "u", "i", "t">>, <<"s", "a", "l", "i", "r">>}) =>
          /\ pc = "SessionEnded"
          /\ Last(output) = Farewell
          /\ TurnTrace = <<"read", "print">>
          /\ Turns = 0 => ModelCalls(trace) = 0
    /\ pc = "SessionEnded" =>
          /\ TurnTrace = <<"read", "print">>
          /\ error = "none"

C6_Witness ==
    /\ pc = "SessionEnded"
    /\ user_input = <<"Q", "U", "I", "T">>
    /\ Turns = 0
    /\ ModelCalls(trace) = 0
    /\ output = <<Welcome, Farewell>>

\* the payload does not parse, or parses to something other than an object
\* holding a string product_name
BadArguments(arguments_json) ==
    \/ ~arguments_json.valid
    \/ arguments_json.value.type # "dict"
    \/ ~\E kv \in arguments_json.value.items :
            kv[1] = "product_name" /\ kv[2].type = "str"

(* C7: whatever argument payload the model sends with a function call, the  *)
(* turn is not aborted: dispatch does not raise on bad arguments.           *)
C7_BadArgumentsNeverAbort ==
    (/\ pc = "Aborted"
     /\ Len(trace) >= 2
     /\ SubSeq(trace, Len(trace) - 1, Len(trace)) = <<"dispatch", "raise">>) =>
        ~BadArguments(message.arguments)

(* C8: a requested function that is neither get_product_info nor            *)
(* check_stock is dispatched to the unknown-function message without any    *)
(* query being called, the message is appended as a function turn tagged    *)
(* with the requested name, the next step is the follow-up completion, and  *)
(* when that completion returns the session is waiting for user input.      *)
C8_UnknownFunctionStep ==
    /\ (pc = "DispatchingFunction" /\ message.name \notin {"get_product_info", "check_stock"}) =>
          /\ pc' = "AwaitingFollowupReply"
          /\ messages' = Append(messages, [role |-> "function", name |-> message.name,
                                           content |-> UnknownFunction])
          /\ trace' = trace \o <<"dispatch", "append_function">>
          /\ error' = "none"
    /\ pc = "AwaitingFollowupReply" =>
          /\ Len(trace') > Len(trace)
          /\ trace'[Len(trace) + 1] = "complete"
          /\ pc' \in {"AwaitingUserInput", "Aborted"}
          /\ pc' = "Aborted" <=> Last(trace') = "raise"
          /\ pc' = "AwaitingUserInput" =>
                /\ Last(messages').role = "assistant"
                /\ error' = "none"

C8_UnknownFunctionIsNotFatal == [][C8_UnknownFunctionStep]_vars

C8_Witness ==
    /\ pc = "AwaitingUserInput"
    /\ message.kind = "function_call"
    /\ message.name = "refund"
    /\ message.arguments = [valid |-> TRUE, value |-> [type |-> "list", items |-> {}]]
    /\ TurnTrace = <<"read", "append_user", "complete_with_functions", "dispatch",
                     "append_function", "complete", "print", "append_assistant">>
    /\ messages[Len(messages) - 1] =
          [role |-> "function", name |-> "refund", content |-> UnknownFunction]

(* C9: the session loop only ever runs on a validated catalog: a resource   *)
(* that is missing or holds a record lacking a required field stops main at *)
(* startup.                                                                 *)
C9_LoadValidates ==
    pc \notin {"Startup", "Aborted"} =>
        \A i \in DOMAIN catalog : ProductKeys \subseteq DOMAIN catalog[i]

UserTurns == SelectSeq(messages, LAMBDA m : m.role = "user")

(* C10 as stated: the line read is appended before the exit check, so at    *)
(* SessionEnded the last turn is the user turn holding the exit phrase.     *)
C10_ExitPhraseIsLastTurn ==
    pc = "SessionEnded" =>
        Last(messages) = [role |-> "user", content |-> Text(user_input)]

(* C10 amended: every line read that is not an exit phrase is appended as a *)
(* user turn before anything else is done with it; the exit check comes     *)
(* first and an exit phrase is not appended, so at SessionEnded the         *)
(* transcript holds one user turn per non-exit line read, none of them the  *)
(* exit phrase, and its last turn is the system or an assistant turn.       *)
C10_OnlyNonExitLinesAppended ==
    /\ pc = "AwaitingModelDecision" =>
          Last(messages) = [role |-> "user", content |-> Text(user_input)]
    /\ Len(UserTurns) = Turns
    /\ \A k \in DOMAIN trace :
          trace[k] = "read" =>
              (k < Len(trace) /\ trace[k + 1] \in {"append_user", "print"})
    /\ pc = "SessionEnded" =>
          /\ Last(messages).role \in {"system", "assistant"}
          /\ \A i \in DOMAIN messages :
                messages[i].role = "user" =>
                    Lower(messages[i].content.val) \notin ExitPhrases
          /\ Len(SelectSeq(trace, LAMBDA e : e = "read")) = Len(UserTurns) + 1

C10_Witness ==
    /\ pc = "SessionEnded"
    /\ Len(UserTurns) = 1
    /\ user_input = <<"S", "a", "l", "i", "r">>
    /\ Last(messages).role = "assistant"

IsPrefix(s, t) == Len(s) <= Len(t) /\ SubSeq(t, 1, Len(s)) = s

C11_AppendOnlyStep ==
    /\ IsPrefix(messages, messages')
    /\ messages' # <<>> => messages'[1] = [role |-> "system", content |-> SystemPrompt]

(* C11: the transcript is append-only: every step leaves the old transcript *)
(* as a prefix of the new one, so no turn is removed, reordered or          *)
(* rewritten, and the first turn is always the system turn.                 *)
C11_TranscriptAppendOnly == [][C11_AppendOnlyStep]_vars

C11_Witness ==
    /\ pc = "SessionEnded"
    /\ Len(messages) = 6
    /\ messages[1].role = "system"
    /\ \E i \in DOMAIN messages : messages[i].role = "function"

AssistantTurns == SelectSeq(messages, LAMBDA m : m.role = "assistant")

\* the positions of the history where a completion call raised
FailedCalls ==
    {k \in DOMAIN trace :
        /\ trace[k] = "raise"
        /\ k > 1
        /\ trace[k - 1] \in {"complete_with_functions", "complete"}}

(* C12: an error raised by a completion call, the first or the second of a  *)
(* turn, ends main there: nothing follows it, no assistant turn was         *)
(* appended and nothing was printed for that user input, and no further     *)
(* line is read.                                                            *)
C12_ModelErrorEndsSession ==
    \A k \in FailedCalls :
        /\ k = Len(trace)
        /\ pc = "Aborted"
        /\ error = "APIError"
        /\ \A j \in DOMAIN TurnTrace : TurnTrace[j] \notin {"print", "append_assistant"}
        /\ Last(messages).role \in {"user", "function"}
        /\ Len(output) = 1 + Len(AssistantTurns)
        /\ Len(SelectSeq(trace, LAMBDA e : e = "read")) = Len(UserTurns)

C12_Witness ==
    /\ pc = "Aborted"
    /\ error = "APIError"
    /\ Turns = 2
    /\ Len(trace) >= 2
    /\ SubSeq(trace, Len(trace) - 1, Len(trace)) = <<"complete", "raise">>
    /\ Last(messages).role = "function"
    /\ Len(AssistantTurns) = 1

Loaded == \E k \in DOMAIN trace : trace[k] = "load" /\ (k = Len(trace) \/ trace[k + 1] # "raise")

(* C13: the catalog is immutable after load: once load_product_catalog has  *)
(* returned, in every state of the session, whatever has been read,         *)
(* decided, queried, dispatched or replied, the catalog is the list that    *)
(* was loaded from the file at startup.                                     *)
C13_CatalogImmutable ==
    /\ Loaded => catalog = resource.content
    /\ ~Loaded => catalog = <<>>

C13_Witness ==
    /\ pc = "SessionEnded"
    /\ Len(catalog) = 2
    /\ catalog = resource.content
    /\ \E k \in DOMAIN trace : trace[k] = "get_product_info"
    /\ \E k \in DOMAIN trace : trace[k] = "check_stock"

SessionStates ==
    {"AwaitingUserInput", "AwaitingModelDecision", "DispatchingFunction",
     "AwaitingFollowupReply", "SessionEnded"}

Dispatches(t) == Len(SelectSeq(t, LAMBDA e : e = "dispatch"))

\* a step between two states of the session's state machine; a step in which
\* an uncaught exception ends main leaves the machine and is not one of them
C14_SessionStep ==
    (pc \in SessionStates /\ pc' \in SessionStates /\ pc' # pc) =>
        \/ /\ pc = "AwaitingUserInput"
           /\ pc' = "AwaitingModelDecision"
           /\ Lower(user_input') \notin ExitPhrases
        \/ /\ pc = "AwaitingUserInput"
           /\ pc' = "SessionEnded"
           /\ Lower(user_input') \in ExitPhrases
        \/ /\ pc = "AwaitingModelDecision"
           /\ pc' = "DispatchingFunction"
           /\ message'.kind = "function_call"
           /\ messages' = messages
           /\ output' = output
        \/ /\ pc = "AwaitingModelDecision"
           /\ pc' = "AwaitingUserInput"
           /\ message'.kind = "content"
           /\ messages' = Append(messages, [role |-> "assistant",
                                            content |-> message'.content])
           /\ output' = Append(output, message'.content)
        \/ /\ pc = "DispatchingFunction"
           /\ pc' = "AwaitingFollowupReply"
        \/ /\ pc = "AwaitingFollowupReply"
           /\ pc' = "AwaitingUserInput"
           /\ Last(messages').role = "assistant"
           /\ Last(messages').content.fmt = "text"
           /\ Last(output') = Last(messages').content

C14_Step ==
    /\ C14_SessionStep
    /\ pc \in SessionStates => pc' # pc \/ UNCHANGED vars
    /\ Dispatches(TurnTrace') <= 1

(* C14: between the states of the session only these transitions occur:     *)
(* AwaitingUserInput to AwaitingModelDecision on a non-exit line or to      *)
(* SessionEnded on an exit phrase; AwaitingModelDecision to                 *)
(* DispatchingFunction on a function call or back to AwaitingUserInput with *)
(* the reply appended and printed; DispatchingFunction to                   *)
(* AwaitingFollowupReply; AwaitingFollowupReply to AwaitingUserInput with   *)
(* the reply taken as text; and at most one function is dispatched per line *)
(* read.                                                                    *)
C14_OnlyTheseTransitions == [][C14_Step]_vars

C14_Witness ==
    /\ pc = "SessionEnded"
    /\ Turns = 2
    /\ Dispatches(trace) = 1
    /\ Len(SelectSeq(messages, LAMBDA m : m.role = "function")) = 1
    /\ Len(AssistantTurns) = 2

Roles(msgs) == [i \in DOMAIN msgs |-> msgs[i].role]

\* whether the roles from position i on are complete blocks: a user turn, at
\* most one function turn, one assistant turn
RECURSIVE CompleteBlocks(_, _)
CompleteBlocks(roles, i) ==
    IF i > Len(roles) THEN TRUE
    ELSE IF roles[i] # "user" THEN FALSE
    ELSE IF i + 1 <= Len(roles) /\ roles[i + 1] = "assistant"
         THEN CompleteBlocks(roles, i + 2)
    ELSE IF i + 2 <= Len(roles) /\ roles[i + 1] = "function" /\ roles[i + 2] = "assistant"
         THEN CompleteBlocks(roles, i + 3)
    ELSE FALSE

(* C15: whenever the session waits for user input, the transcript is the    *)
(* system turn followed by complete blocks, each a user turn, then at most  *)
(* one function turn, then one assistant turn; every function turn stands   *)
(* between a user turn and an assistant turn; and assistant turns hold only *)
(* reply text, so the function-call request is never a turn.                *)
C15_TranscriptShape ==
    pc = "AwaitingUserInput" =>
        /\ Len(messages) >= 1
        /\ messages[1].role = "system"
        /\ CompleteBlocks(Roles(messages), 2)
        /\ \A i \in DOMAIN messages :
              messages[i].role = "function" =>
                  /\ i > 1 /\ i < Len(messages)
                  /\ messages[i - 1].role = "user"
                  /\ messages[i + 1].role = "assistant"
        /\ \A i \in DOMAIN messages :
              messages[i].role = "assistant" =>
                  /\ DOMAIN messages[i] = {"role", "content"}
                  /\ messages[i].content \in {Text(r) : r \in Replies}
        /\ Len(AssistantTurns) = Len(UserTurns)
        /\ Len(SelectSeq(messages, LAMBDA m : m.role = "function")) = Dispatches(trace)

C15_Witness ==
    /\ pc = "AwaitingUserInput"
    /\ Roles(messages) = <<"system", "user", "function", "assistant", "user", "assistant">>

\* the arguments, once parsed, are an object without product_name: the
\* payload did not parse (and counts as {}), is {} or holds other keys only
LacksProductName(arguments_json) ==
    \/ ~arguments_json.valid
    \/ /\ arguments_json.value.type = "dict"
       /\ \A kv \in arguments_json.value.items : kv[1] # "product_name"

NoEmptyName(cat) ==
    \A i \in DOMAIN cat : "name" \in DOMAIN cat[i] /\ cat[i].name # <<>>

DispatchedThisTurn ==
    /\ message.kind = "function_call"
    /\ \E k \in DOMAIN TurnTrace : TurnTrace[k] = "dispatch"

(* C16: when the arguments of the requested call are empty or lack          *)
(* product_name and no catalog record has an empty name, the dispatch of    *)
(* get_product_info yields the no-product-found message for the empty name  *)
(* and the dispatch of check_stock the out-of-stock message for the empty   *)
(* name; it yields neither a product summary nor the available message, and *)
(* it does not raise.                                                       *)
C16_MissingNameDefaultsToEmpty ==
    (/\ DispatchedThisTurn
     /\ message.name \in {"get_product_info", "check_stock"}
     /\ LacksProductName(message.arguments)
     /\ NoEmptyName(catalog)) =>
        LET at == CHOOSE k \in DOMAIN TurnTrace : TurnTrace[k] = "dispatch"
        IN  /\ TurnTrace[at + 1] = message.name
            /\ TurnTrace[at + 2] = "append_function"
            /\ \E i \in DOMAIN messages :
                  /\ i >= Len(messages) - 1
                  /\ messages[i].role = "function"
                  /\ messages[i].name = message.name
                  /\ messages[i].content.fmt \notin {"product", "available"}
                  /\ message.name = "get_product_info" =>
                        messages[i].content = [fmt |-> "no_product", product_name |-> Str(<<>>)]
                  /\ message.name = "check_stock" =>
                        messages[i].content = [fmt |-> "out_of_stock", product_name |-> Str(<<>>)]

C16_Witness ==
    /\ pc = "AwaitingFollowupReply"
    /\ message.name = "check_stock"
    /\ message.arguments = [valid |-> TRUE,
                            value |-> [type |-> "dict", items |-> {<<"name", Str(<<"b">>)>>}]]
    /\ Len(catalog) = 2
    /\ Last(messages).content = [fmt |-> "out_of_stock", product_name |-> Str(<<>>)]
    /\ \E i \in DOMAIN messages :
          messages[i].role = "function" /\ messages[i].name = "get_product_info"
            /\ messages[i].content = [fmt |-> "no_product", product_name |-> Str(<<>>)]

====
